---- MODULE Spec2Model ----
(***************************************************************************)
(* Model of the workout tracker (src/Workoutstracker.py): the credential   *)
(* store users.json, the per-user folders with their workouts.csv, the     *)
(* Streamlit sessions, and the handlers of the Login / Create / Logout /   *)
(* Delete / Save Workout / Save Changes buttons.                           *)
(*                                                                         *)
(* A Streamlit script run is executed top to bottom for one session and    *)
(* the runs of two sessions are two threads.  A run first reads users.json *)
(* into st.session_state.users (lines 25-29, action BeginRun); the account *)
(* handlers then work on that copy.  A run of the main app reads           *)
(* workouts.csv (lines 125-134, action LoadLog) and then runs the handler  *)
(* of the pressed button on the frame it read (SaveWorkout, SaveChanges,   *)
(* or EndRun when none is pressed).  The runs of two sessions interleave   *)
(* between each read and the write that follows it.                        *)
(*                                                                         *)
(* Strings whose characters matter (usernames: path derivation; exercise   *)
(* names: emptiness and blanks) are sequences of one-character strings.    *)
(* Dates are day numbers.  The pandas operations are modelled with the     *)
(* semantics of pandas 2.x: datetime.date objects stay Python objects,     *)
(* Timestamp and datetime.date never compare equal, and to_datetime        *)
(* parses a column of strings with the one format guessed from its first   *)
(* element.                                                                *)
(***************************************************************************)
EXTENDS Naturals, Sequences, FiniteSets, TLC

VARIABLES
  usersFile,   \* user_folders/users.json: [exists, data: username -> digest]
  folders,     \* directories that exist under BASE_FOLDER (resolved paths)
  csv,         \* resolved folder path -> its workouts.csv: [exists, rows]
  session,     \* st.session_state of each session: [logged_in, username]
  users,       \* st.session_state.users of each session
  pc,          \* position of each session's script run: "idle" (none),
               \* "top" (users.json read), "loaded" (table read), "rerun"
               \* (st.rerun() called), "retop" (users.json read by that run)
  df,          \* the frame df a run of the main app holds after line 134
  dirty,       \* history: the file a run read was rewritten by another session
  lastOp       \* history: the last operation, its inputs and its outcome

vars == <<usersFile, folders, csv, session, users, pc, df, dirty, lastOp>>

----------------------------------------------------------------------------
(* Bounds of the model. *)

\* cap on the rows of a frame a Save Workout may still extend
AcctMaxRows == 2
LogMaxRows == 3
RaceMaxRows == 2
\* dates offered by the date inputs are the days 1..MaxDay
MaxDay == 2
\* weights offered by the number inputs are 1..MaxWeight
MaxWeight == 2

----------------------------------------------------------------------------
(* Strings as sequences of characters. *)

EmptyStr == <<>>

RECURSIVE Strip(_)
\* str.strip(): the string without leading and trailing blanks
Strip(str) ==
  IF str = <<>> THEN <<>>
  ELSE IF Head(str) = " " THEN Strip(Tail(str))
  ELSE IF str[Len(str)] = " " THEN Strip(SubSeq(str, 1, Len(str) - 1))
  ELSE str

RECURSIVE SplitPath(_, _)
\* the components of a relative path: the text between the "/" separators
SplitPath(str, cur) ==
  IF str = <<>> THEN <<cur>>
  ELSE IF Head(str) = "/" THEN <<cur>> \o SplitPath(Tail(str), <<>>)
  ELSE SplitPath(Tail(str), Append(cur, Head(str)))

\* os.path.join(BASE_FOLDER, username) as the file system resolves it, relative
\* to BASE_FOLDER: empty components and "." name no directory of their own.
\* (The usernames of the model neither start with "/" nor contain "..".)
user_folder(username) ==
  SelectSeq(SplitPath(username, <<>>), LAMBDA c : c # <<>> /\ c # <<".">>)

IsPrefix(p, q) == Len(p) <= Len(q) /\ SubSeq(q, 1, Len(p)) = p

----------------------------------------------------------------------------
(* Input domains.  Every specification runs the same actions; they differ  *)
(* in the sessions that act and in the values typed into the forms.  The   *)
(* usernames are the empty one, two plain ones, and one that names the     *)
(* folder of another ("a/"); the exercise names typed into Log Workout     *)
(* include the empty and the blank one, those typed into Edit Past Entries *)
(* are not empty.                                                          *)

AllSessions == {1, 2}
AllUsernames == {<<>>, <<"a">>, <<"b">>, <<"a", "/">>}
AllPaths == {user_folder(u) : u \in AllUsernames}

AcctInputs ==
  [sessions |-> {1},
   usernames |-> AllUsernames,
   passwords |-> {"", "p"},
   days |-> {1},
   exercises |-> {<<"S">>},
   editExercises |-> {<<"S">>},
   weights |-> {1},
   editWeights |-> {1},
   maxRows |-> AcctMaxRows]

LogInputs ==
  [sessions |-> {1},
   usernames |-> {<<"a">>},
   passwords |-> {"p"},
   days |-> 1..MaxDay,
   exercises |-> {<<>>, <<" ">>, <<"S">>, <<"B">>},
   editExercises |-> {<<"S">>, <<"B">>},
   weights |-> 1..MaxWeight,
   editWeights |-> 1..MaxWeight,
   maxRows |-> LogMaxRows]

RaceInputs ==
  [sessions |-> {1, 2},
   usernames |-> {<<"a">>},
   passwords |-> {"p"},
   days |-> {1},
   exercises |-> {<<"S">>, <<"B">>},
   editExercises |-> {<<"S">>},
   weights |-> {1, 2},
   editWeights |-> {1},
   maxRows |-> RaceMaxRows]

\* the value of the Reps number input (plays no part in any comparison)
RepsInput == {5}

----------------------------------------------------------------------------
(* Credential store. *)

NoUsers == [u \in {} |-> <<>>]
NoUsersFile == [exists |-> FALSE, data |-> NoUsers]

\* hashlib.sha256(pwd.encode()).hexdigest(): unsalted, a function of the
\* password alone, taken as collision-free
hash_password(pwd) == <<"sha256", pwd>>

\* lines 25-29: the users a run reads are the content of users.json, or {}
LoadUsers == IF usersFile.exists THEN usersFile.data ELSE NoUsers

\* create_account without the check of line 40
create_account_unchecked(known, username, password, password_confirm) ==
  IF password # password_confirm THEN "PasswordMismatch" ELSE "ok"

\* the checks of create_account, in the order of the code
create_account_result(known, username, password, password_confirm) ==
  IF username \in DOMAIN known THEN "DuplicateUsername"
  ELSE IF password # password_confirm THEN "PasswordMismatch"
  ELSE "ok"

\* the checks of login_user (and of delete_account), in the order of the code
login_result(known, username, password) ==
  IF username \notin DOMAIN known THEN "UnknownUser"
  ELSE IF known[username] # hash_password(password) THEN "WrongPassword"
  ELSE "ok"

\* st.session_state.users[username] = hash_password(password)
AddUser(known, username, password) ==
  [u \in DOMAIN known \cup {username} |->
     IF u = username THEN hash_password(password) ELSE known[u]]

\* del users[username]
DelUser(known, username) == [u \in DOMAIN known \ {username} |-> known[u]]

----------------------------------------------------------------------------
(* File system. *)

NoFile == [exists |-> FALSE, rows |-> <<>>]

\* os.makedirs(path, exist_ok=True): the folder and the folders above it
makedirs(fs, path) == fs \cup {SubSeq(path, 1, k) : k \in 1..Len(path)}

\* os.path.exists(user_folder): BASE_FOLDER itself always exists (line 12)
FolderExists(fs, path) == path = <<>> \/ path \in fs

\* shutil.rmtree(user_folder): the folders at and below path
rmtree_folders(fs, path) == {q \in fs : ~IsPrefix(path, q)}

\* delete_account without the rmtree of line 83
rmtree_files_kept(files, path) == files

\* shutil.rmtree(user_folder): the workout files at and below path
rmtree_files(files, path) ==
  [q \in DOMAIN files |-> IF IsPrefix(path, q) THEN NoFile ELSE files[q]]

\* history: the rows stored at and below path are marked as deleted
MarkDeleted(files, path) ==
  [q \in DOMAIN files |->
     IF IsPrefix(path, q)
       THEN [files[q] EXCEPT !.rows =
               [i \in 1..Len(@) |-> [@[i] EXCEPT !.deleted = TRUE]]]
       ELSE files[q]]

----------------------------------------------------------------------------
(* The workout table: cells of the Date column, rows, and the pandas       *)
(* operations the handlers apply to the frame.                             *)

\* an element of a datetime64 column, or a pandas Timestamp object
Timestamp(d) == [type |-> "Timestamp", day |-> d, time |-> FALSE]
\* a datetime.date object, as st.date_input returns it
PyDate(d) == [type |-> "date", day |-> d, time |-> FALSE]
\* the text of a date: "YYYY-MM-DD", or "YYYY-MM-DD 00:00:00" when time
DateStr(d, t) == [type |-> "str", day |-> d, time |-> t]
NaT == [type |-> "NaT", day |-> 0, time |-> FALSE]

\* one row of the table; deleted is history (see MarkDeleted)
Row(date, exercise, weight, reps) ==
  [Date |-> date, Exercise |-> exercise, Weight |-> weight, Reps |-> reps,
   deleted |-> FALSE]

Key(row) == <<row.Date.day, row.Exercise>>

\* pd.to_datetime(column, errors="coerce") for one element: a string is
\* parsed with the format guessed from the first element of the column when
\* that is a string, and is NaT when it does not match; Timestamp and
\* datetime.date objects convert to the Timestamp of their day
to_datetime_cell(c, first) ==
  IF c.type = "NaT" THEN NaT
  ELSE IF c.type = "str" /\ first.type = "str" /\ c.time # first.time THEN NaT
  ELSE Timestamp(c.day)

\* df["Date"] = pd.to_datetime(df["Date"], errors="coerce")
to_datetime(frame) ==
  [i \in 1..Len(frame) |->
     [frame[i] EXCEPT !.Date = to_datetime_cell(@, frame[1].Date)]]

\* df.dropna(subset=["Date", "Weight", "Reps"]): Weight and Reps are never
\* missing in a file the handlers wrote, a Date is missing when it is NaT
dropna(frame) == SelectSeq(frame, LAMBDA r : r.Date.type # "NaT")

\* lines 129-134: the frame of a run
load(file) == IF file.exists THEN dropna(to_datetime(file.rows)) ELSE <<>>

\* a save that writes the new row without the frame it read
concat_forgets(frame, new_row) == <<new_row>>

\* pd.concat([df, new_row])
concat(frame, new_row) == Append(frame, new_row)

RECURSIVE drop_duplicates(_)
\* .drop_duplicates(subset=["Date", "Exercise"], keep="last"): a row goes
\* when a later row has an equal Date object and an equal Exercise; a
\* Timestamp and a datetime.date of the same day are not equal objects
drop_duplicates(frame) ==
  IF frame = <<>> THEN <<>>
  ELSE LET h == Head(frame)
           t == Tail(frame)
       IN IF \E j \in 1..Len(t) :
                t[j].Date = h.Date /\ t[j].Exercise = h.Exercise
            THEN drop_duplicates(t)
            ELSE <<h>> \o drop_duplicates(t)

\* df["Date"].dt.strftime("%Y-%m-%d")
strftime(frame) ==
  [i \in 1..Len(frame) |->
     [frame[i] EXCEPT !.Date = DateStr(@.day, FALSE)]]

\* lines 153-159: the frame Save Workout writes
save_frame(frame, date, exercise, weight, reps) ==
  strftime(dropna(to_datetime(drop_duplicates(
    concat(frame, Row(PyDate(date), exercise, weight, reps))))))

\* the text to_csv writes for an element of an object column: str() of a
\* Timestamp carries the time of day, str() of a datetime.date does not
to_csv_cell(c) ==
  IF c.type = "Timestamp" THEN DateStr(c.day, TRUE)
  ELSE IF c.type = "date" THEN DateStr(c.day, FALSE)
  ELSE c

\* df.to_csv(csv_file, index=False)
to_csv(frame) ==
  [exists |-> TRUE,
   rows |-> [i \in 1..Len(frame) |->
               [frame[i] EXCEPT !.Date = to_csv_cell(@)]]]

RECURSIVE InsertDesc(_, _)
InsertDesc(row, sorted) ==
  IF sorted = <<>> THEN <<row>>
  ELSE IF row.Date.day > Head(sorted).Date.day THEN <<row>> \o sorted
  ELSE <<Head(sorted)>> \o InsertDesc(row, Tail(sorted))

RECURSIVE sort_values_desc(_)
\* line 172: df.sort_values("Date", ascending=False).reset_index(drop=True)
sort_values_desc(frame) ==
  IF frame = <<>> THEN <<>>
  ELSE InsertDesc(frame[Len(frame)],
                  sort_values_desc(SubSeq(frame, 1, Len(frame) - 1)))

\* lines 184-186: the rows the boolean mask of Save Changes selects
edit_mask(frame, selected_row) ==
  {i \in 1..Len(frame) :
     frame[i].Date = selected_row.Date
     /\ frame[i].Exercise = selected_row.Exercise}

\* lines 184-188: df.loc[mask, columns] = [edit_date, ...]; the date is a
\* datetime.date, which the datetime64 column cannot hold, so the column
\* becomes a column of objects
edit_frame(frame, selected_row, edit_date, edit_exercise, edit_weight, edit_reps) ==
  [i \in 1..Len(frame) |->
     IF i \in edit_mask(frame, selected_row)
       THEN [frame[i] EXCEPT !.Date = PyDate(edit_date),
                             !.Exercise = edit_exercise,
                             !.Weight = edit_weight,
                             !.Reps = edit_reps]
       ELSE frame[i]]

----------------------------------------------------------------------------
(* History record of the last operation. *)

Op(op, s, username, result) ==
  [op |-> op, s |-> s, username |-> username, result |-> result,
   password |-> "", confirm |-> "", day |-> 0, exercise |-> <<>>,
   weight |-> 0, reps |-> 0, origDay |-> 0, origExercise |-> <<>>,
   rows |-> 0, overlap |-> FALSE, lost |-> FALSE]

LoggedOut == [logged_in |-> FALSE, username |-> EmptyStr]

\* history: the runs of other sessions that hold a frame read from below path
Stale(s, path) ==
  [t \in AllSessions |->
     IF t # s /\ pc[t] = "loaded"
        /\ IsPrefix(path, user_folder(session[t].username))
       THEN TRUE ELSE dirty[t]]

----------------------------------------------------------------------------
Init ==
  /\ usersFile = NoUsersFile
  /\ folders = {}
  /\ csv = [p \in AllPaths |-> NoFile]
  /\ session = [s \in AllSessions |-> LoggedOut]
  /\ users = [s \in AllSessions |-> NoUsers]
  /\ pc = [s \in AllSessions |-> "idle"]
  /\ df = [s \in AllSessions |-> <<>>]
  /\ dirty = [s \in AllSessions |-> FALSE]
  /\ lastOp = Op("init", 0, EmptyStr, "ok")

\* lines 15-29: the top of a script run, started by a widget of the page
BeginRun(in, s) ==
  /\ pc[s] = "idle"
  /\ users' = [users EXCEPT ![s] = LoadUsers]
  /\ pc' = [pc EXCEPT ![s] = "top"]
  /\ lastOp' = Op("run", s, session[s].username, "ok")
  /\ UNCHANGED <<usersFile, folders, csv, session, df, dirty>>

\* lines 109-110, 39-50: the Create button; the check and the file written
\* are those of the users the run read at its top
CreateAccount(in, s) ==
  /\ ~session[s].logged_in
  /\ pc[s] = "top"
  /\ \E username \in in.usernames, password \in in.passwords,
        password_confirm \in in.passwords :
       LET r == create_account_result(users[s], username, password,
                                      password_confirm)
           added == AddUser(users[s], username, password)
       IN /\ lastOp' = [Op("create_account", s, username, r) EXCEPT
                          !.password = password,
                          !.confirm = password_confirm]
          /\ IF r = "ok"
               THEN /\ users' = [users EXCEPT ![s] = added]
                    /\ usersFile' = [exists |-> TRUE, data |-> added]
                    /\ folders' = makedirs(folders, user_folder(username))
               ELSE UNCHANGED <<users, usersFile, folders>>
  /\ pc' = [pc EXCEPT ![s] = "idle"]
  /\ UNCHANGED <<csv, session, df, dirty>>

\* lines 106-107, 52-62: the Login button
LoginUser(in, s) ==
  /\ ~session[s].logged_in
  /\ pc[s] = "top"
  /\ \E username \in in.usernames, password \in in.passwords :
       LET r == login_result(users[s], username, password)
       IN /\ lastOp' = [Op("login_user", s, username, r) EXCEPT
                          !.password = password]
          /\ session' = IF r = "ok"
                          THEN [session EXCEPT
                                  ![s] = [logged_in |-> TRUE,
                                          username |-> username]]
                          ELSE session
  /\ pc' = [pc EXCEPT ![s] = "idle"]
  /\ UNCHANGED <<usersFile, folders, csv, users, df, dirty>>

\* lines 115-116, 64-66: the Logout button; the rest of the run works on
\* the username "", whose folder is BASE_FOLDER, and writes nothing
LogoutUser(in, s) ==
  /\ session[s].logged_in
  /\ pc[s] = "top"
  /\ session' = [session EXCEPT ![s] = LoggedOut]
  /\ pc' = [pc EXCEPT ![s] = "idle"]
  /\ lastOp' = Op("logout_user", s, session[s].username, "ok")
  /\ UNCHANGED <<usersFile, folders, csv, users, df, dirty>>

\* lines 121-122, 68-94: the Delete My Account button.  A refused delete
\* returns False and the run goes on to line 126, which makes the folder.
\* Removing the folder of the username "" removes BASE_FOLDER with
\* users.json in it, and save_users then raises before the session is
\* logged out.  A successful delete ends in st.rerun().
DeleteAccount(in, s) ==
  /\ session[s].logged_in
  /\ pc[s] = "top"
  /\ \E password \in in.passwords :
       LET username == session[s].username
           r == login_result(users[s], username, password)
           path == user_folder(username)
           removed == FolderExists(folders, path)
           baseGone == removed /\ path = <<>>
           left == DelUser(users[s], username)
       IN IF r # "ok"
            THEN /\ lastOp' = [Op("delete_account", s, username, r) EXCEPT
                                 !.password = password]
                 /\ folders' = makedirs(folders, path)
                 /\ pc' = [pc EXCEPT ![s] = "idle"]
                 /\ UNCHANGED <<usersFile, csv, session, users, df, dirty>>
            ELSE /\ folders' = IF removed THEN rmtree_folders(folders, path)
                                          ELSE folders
                 /\ csv' = IF removed
                             THEN rmtree_files(MarkDeleted(csv, path), path)
                             ELSE csv
                 /\ df' = [t \in AllSessions |->
                             IF /\ removed
                                /\ t # s
                                /\ pc[t] = "loaded"
                                /\ IsPrefix(path,
                                            user_folder(session[t].username))
                               THEN [i \in 1..Len(df[t]) |->
                                       [df[t][i] EXCEPT !.deleted = TRUE]]
                               ELSE df[t]]
                 /\ dirty' = IF removed THEN Stale(s, path) ELSE dirty
                 /\ users' = [users EXCEPT ![s] = left]
                 /\ usersFile' = IF baseGone THEN NoUsersFile
                                 ELSE [exists |-> TRUE, data |-> left]
                 /\ session' = IF baseGone THEN session
                               ELSE [session EXCEPT ![s] = LoggedOut]
                 /\ pc' = [pc EXCEPT
                             ![s] = IF baseGone THEN "idle" ELSE "rerun"]
                 /\ lastOp' = [Op("delete_account", s, username,
                                  IF baseGone THEN "raised" ELSE "ok")
                                 EXCEPT !.password = password,
                                        !.rows = Len(csv[path].rows)]

\* lines 93, 192: st.rerun() starts a run in which no button is pressed;
\* its top (lines 15-29) reads users.json
Rerun(in, s) ==
  /\ pc[s] = "rerun"
  /\ users' = [users EXCEPT ![s] = LoadUsers]
  /\ pc' = [pc EXCEPT ![s] = "retop"]
  /\ lastOp' = Op("rerun", s, session[s].username, "ok")
  /\ UNCHANGED <<usersFile, folders, csv, session, df, dirty>>

\* lines 125-134 of the run st.rerun() started, for a logged-in session: it
\* makes the folder and reads the table; no handler runs and nothing is
\* written from the frame
RerunLoad(in, s) ==
  /\ session[s].logged_in
  /\ pc[s] = "retop"
  /\ folders' = makedirs(folders, user_folder(session[s].username))
  /\ pc' = [pc EXCEPT ![s] = "idle"]
  /\ lastOp' = Op("reload", s, session[s].username, "ok")
  /\ UNCHANGED <<usersFile, csv, session, users, df, dirty>>

\* lines 125-134: a run of the main app reads the table of its user
LoadLog(in, s) ==
  /\ session[s].logged_in
  /\ pc[s] = "top"
  /\ LET path == user_folder(session[s].username)
     IN /\ folders' = makedirs(folders, path)
        /\ df' = [df EXCEPT ![s] = load(csv[path])]
  /\ pc' = [pc EXCEPT ![s] = "loaded"]
  /\ dirty' = [dirty EXCEPT ![s] = FALSE]
  /\ lastOp' = Op("load", s, session[s].username, "ok")
  /\ UNCHANGED <<usersFile, csv, session, users>>

\* history: a key the file holds is in none of the rows about to be written
LosesKey(file, frame) ==
  \E i \in 1..Len(file.rows) :
    \A j \in 1..Len(frame) : Key(frame[j]) # Key(file.rows[i])

\* the write of a handler: to_csv raises when the folder is gone, and the
\* run ends there; after is where the handler leaves the run otherwise
WriteLog(s, path, frame, op, after) ==
  /\ df' = [df EXCEPT ![s] = <<>>]
  /\ IF FolderExists(folders, path)
       THEN /\ csv' = [csv EXCEPT ![path] = to_csv(frame)]
            /\ dirty' = Stale(s, path)
            /\ pc' = [pc EXCEPT ![s] = after]
            /\ lastOp' = [op EXCEPT !.rows = Len(csv[path].rows),
                                    !.overlap = dirty[s],
                                    !.lost = LosesKey(csv[path], frame)]
       ELSE /\ lastOp' = [op EXCEPT !.result = "raised"]
            /\ pc' = [pc EXCEPT ![s] = "idle"]
            /\ UNCHANGED <<csv, dirty>>
  /\ UNCHANGED <<usersFile, folders, session, users>>

\* lines 151-163: the Save Workout button
SaveWorkout(in, s) ==
  /\ pc[s] = "loaded"
  /\ Len(df[s]) < in.maxRows
  /\ \E date \in in.days, exercise \in in.exercises,
        weight \in in.weights, reps \in RepsInput :
       LET username == session[s].username
           op == [Op("save_entry", s, username, "ok") EXCEPT
                    !.day = date, !.exercise = exercise,
                    !.weight = weight, !.reps = reps]
       IN IF exercise # <<>>
            THEN WriteLog(s, user_folder(username),
                          save_frame(df[s], date, exercise, weight, reps),
                          op, "idle")
            ELSE /\ lastOp' = [op EXCEPT !.result = "EmptyExerciseName"]
                 /\ pc' = [pc EXCEPT ![s] = "idle"]
                 /\ df' = [df EXCEPT ![s] = <<>>]
                 /\ UNCHANGED <<usersFile, folders, csv, session, users,
                                dirty>>

\* lines 168-192: the Save Changes button of Edit Past Entries, which ends
\* in st.rerun()
SaveChanges(in, s) ==
  /\ pc[s] = "loaded"
  /\ df[s] # <<>>
  /\ \E selected_index \in 1..Len(df[s]), edit_date \in in.days,
        edit_exercise \in in.editExercises, edit_weight \in in.editWeights,
        edit_reps \in RepsInput :
       LET username == session[s].username
           selected_row == sort_values_desc(df[s])[selected_index]
           op == [Op("edit_entry", s, username, "ok") EXCEPT
                    !.day = edit_date, !.exercise = edit_exercise,
                    !.weight = edit_weight, !.reps = edit_reps,
                    !.origDay = selected_row.Date.day,
                    !.origExercise = selected_row.Exercise]
       IN WriteLog(s, user_folder(username),
                   edit_frame(df[s], selected_row, edit_date, edit_exercise,
                              edit_weight, edit_reps),
                   op, "rerun")

\* a run in which no button was pressed: of the login page, or of the main
\* app after it read the table
EndRun(in, s) ==
  /\ \/ pc[s] = "loaded"
     \/ pc[s] \in {"top", "retop"} /\ ~session[s].logged_in
  /\ pc' = [pc EXCEPT ![s] = "idle"]
  /\ df' = [df EXCEPT ![s] = <<>>]
  /\ lastOp' = Op("render", s, session[s].username, "ok")
  /\ UNCHANGED <<usersFile, folders, csv, session, users, dirty>>

Next(in) ==
  \E s \in in.sessions :
    \/ BeginRun(in, s)
    \/ Rerun(in, s)
    \/ RerunLoad(in, s)
    \/ CreateAccount(in, s)
    \/ LoginUser(in, s)
    \/ LogoutUser(in, s)
    \/ DeleteAccount(in, s)
    \/ LoadLog(in, s)
    \/ SaveWorkout(in, s)
    \/ SaveChanges(in, s)
    \/ EndRun(in, s)

\* one session, the account forms with every username and password
NextAcct == Next(AcctInputs)
Spec == Init /\ [][NextAcct]_vars

\* one session, one account, the workout forms with every input
NextLog == Next(LogInputs)
SpecLog == Init /\ [][NextLog]_vars

\* two sessions on one account
NextRace == Next(RaceInputs)
SpecRace == Init /\ [][NextRace]_vars

----------------------------------------------------------------------------
(* The properties.                                                         *)

\* what an entry says, whatever the text of its date
Entry(row) == <<row.Date.day, row.Exercise, row.Weight, row.Reps>>

\* the rows of the persisted log of a username
Log(files, username) == files[user_folder(username)].rows

IsStep(op) == lastOp'.op = op

\* C1: an unused, non-empty username with a non-empty password equal to its
\* confirmation is accepted by create_account and can log in with that
\* password; the account keeps its digest through every step that is not a
\* delete_account of that username; a login with the password binds the
\* session to the username.
C1_CreateThenAuthenticate ==
  [][/\ (/\ IsStep("create_account")
         /\ lastOp'.username \notin DOMAIN LoadUsers
         /\ lastOp'.username # EmptyStr
         /\ lastOp'.password # ""
         /\ lastOp'.password = lastOp'.confirm)
        => /\ lastOp'.result = "ok"
           /\ login_result(LoadUsers', lastOp'.username,
                           lastOp'.password) = "ok"
     /\ \A u \in DOMAIN LoadUsers :
          (/\ u # EmptyStr
           /\ LoadUsers[u] # hash_password("")
           /\ ~(IsStep("delete_account") /\ lastOp'.username = u))
          => /\ u \in DOMAIN LoadUsers'
             /\ LoadUsers'[u] = LoadUsers[u]
     /\ (/\ IsStep("login_user")
         /\ login_result(LoadUsers, lastOp'.username,
                         lastOp'.password) = "ok")
        => /\ lastOp'.result = "ok"
           /\ session'[lastOp'.s] = [logged_in |-> TRUE,
                                     username |-> lastOp'.username]
    ]_vars

NoDeletedRow ==
  /\ \A p \in AllPaths :
       \A i \in 1..Len(csv[p].rows) : ~csv[p].rows[i].deleted
  /\ \A s \in AllSessions : \A i \in 1..Len(df[s]) : ~df[s][i].deleted

\* C2: after a successful delete_account the username is not in the
\* credential store, a login with the password answers UnknownUser, the
\* session is logged out, the folder and the table of the username are gone
\* (an account created under the name next reads an empty log), and no row
\* that was stored for a deleted account is in any table or frame later.
C2_DeleteRemovesAccount ==
  /\ (lastOp.op = "delete_account" /\ lastOp.result = "ok")
     => /\ lastOp.username \notin DOMAIN LoadUsers
        /\ login_result(LoadUsers, lastOp.username, lastOp.password)
             = "UnknownUser"
        /\ session[lastOp.s] = LoggedOut
        /\ ~csv[user_folder(lastOp.username)].exists
        /\ load(csv[user_folder(lastOp.username)]) = <<>>
        /\ user_folder(lastOp.username) \notin folders
  /\ NoDeletedRow

\* a successful delete_account of an account that had entries saved
C2_Witness ==
  /\ lastOp.op = "delete_account"
  /\ lastOp.result = "ok"
  /\ lastOp.rows > 0

\* C3: after a successful save of (D, E, W) the persisted log holds exactly
\* one entry for (D, E), and it carries W.
C3_UpsertOneEntry ==
  (lastOp.op = "save_entry" /\ lastOp.result = "ok")
  => LET rows == Log(csv, lastOp.username)
         hits == {i \in 1..Len(rows) :
                    Key(rows[i]) = <<lastOp.day, lastOp.exercise>>}
     IN /\ Cardinality(hits) = 1
        /\ \A i \in hits : rows[i].Weight = lastOp.weight

\* C4: the persisted log of every account holds at most one entry for each
\* (date, exercise).
C4_UniqueKey ==
  \A p \in AllPaths :
    \A i, j \in 1..Len(csv[p].rows) :
      Key(csv[p].rows[i]) = Key(csv[p].rows[j]) => i = j

\* C5: an operation performed for a username u leaves the digest and the
\* persisted log of every other account v unchanged (u and v not empty).
C5_AccountIsolation ==
  [][(/\ lastOp'.op \in {"create_account", "save_entry", "edit_entry",
                         "delete_account"}
      /\ lastOp'.username # EmptyStr)
     => \A v \in DOMAIN LoadUsers :
          (v # EmptyStr /\ v # lastOp'.username)
          => /\ v \in DOMAIN LoadUsers'
             /\ LoadUsers'[v] = LoadUsers[v]
             /\ csv'[user_folder(v)] = csv[user_folder(v)]
    ]_vars

\* C6: create_account with a username that is in the credential store
\* answers DuplicateUsername whatever the passwords, and leaves the store
\* and the folders as they were: every password logs in, or fails, as
\* before.
C6_DuplicateUsername ==
  [][(IsStep("create_account") /\ lastOp'.username \in DOMAIN LoadUsers)
     => /\ lastOp'.result = "DuplicateUsername"
        /\ usersFile' = usersFile
        /\ folders' = folders
        /\ \A pw \in AcctInputs.passwords :
             login_result(LoadUsers', lastOp'.username, pw)
               = login_result(LoadUsers, lastOp'.username, pw)
    ]_vars

\* a create_account refused for a taken username although the passwords
\* match and differ from the password of the account
C6_Witness ==
  /\ lastOp.op = "create_account"
  /\ lastOp.result = "DuplicateUsername"
  /\ lastOp.password = lastOp.confirm
  /\ lastOp.username \in DOMAIN LoadUsers
  /\ LoadUsers[lastOp.username] # hash_password(lastOp.password)

\* C7: create_account with an empty username or an empty password answers
\* EmptyField, adds no user and makes no folder.
C7_EmptyField ==
  [][(/\ IsStep("create_account")
      /\ (lastOp'.username = EmptyStr \/ lastOp'.password = ""))
     => /\ lastOp'.result = "EmptyField"
        /\ usersFile' = usersFile
        /\ folders' = folders
    ]_vars

\* C8: save_entry with an exercise name that is empty after trimming answers
\* EmptyExerciseName and leaves the persisted logs as they were.
C8_EmptyExerciseName ==
  [][(IsStep("save_entry") /\ Strip(lastOp'.exercise) = EmptyStr)
     => /\ lastOp'.result = "EmptyExerciseName"
        /\ csv' = csv
    ]_vars

\* C9: a successful edit_entry changes exactly one entry of the persisted
\* log, the one whose (date, exercise) was the original pair, to the four
\* new values; the other entries and the number of entries stay.
C9_EditExactlyOne ==
  [][(IsStep("edit_entry") /\ lastOp'.result = "ok")
     => LET old == Log(csv, lastOp'.username)
            new == Log(csv', lastOp'.username)
        IN /\ Len(new) = Len(old)
           /\ \E i \in 1..Len(old) :
                /\ Key(old[i]) = <<lastOp'.origDay, lastOp'.origExercise>>
                /\ \A j \in 1..Len(old) :
                     Entry(new[j]) =
                       IF j = i
                         THEN <<lastOp'.day, lastOp'.exercise,
                                lastOp'.weight, lastOp'.reps>>
                         ELSE Entry(old[j])
    ]_vars

\* the entry of row i is the last one the rows hold for its (date, exercise)
IsLatest(rows, i) ==
  \A k \in (i + 1)..Len(rows) : Key(rows[k]) # Key(rows[i])

\* C10: a save whose run did not overlap a write of another session (the
\* file is the one the run read, written by saves only) loses nothing: the
\* latest persisted entry of every other (date, exercise) is still persisted
\* after it, and so is the saved entry.  (The witness is the overlapping
\* case: a save that wiped the entry another session had saved.)
C10_NoLossWithoutOverlap ==
  [][(/\ IsStep("save_entry")
      /\ lastOp'.result = "ok"
      /\ ~dirty[lastOp'.s]
      /\ \A i \in 1..Len(Log(csv, lastOp'.username)) :
           ~Log(csv, lastOp'.username)[i].Date.time)
     => LET old == Log(csv, lastOp'.username)
            new == Log(csv', lastOp'.username)
        IN /\ \A i \in 1..Len(old) :
                (/\ Key(old[i]) # <<lastOp'.day, lastOp'.exercise>>
                 /\ IsLatest(old, i))
                => \E j \in 1..Len(new) : Entry(new[j]) = Entry(old[i])
           /\ \E j \in 1..Len(new) :
                Entry(new[j]) = <<lastOp'.day, lastOp'.exercise,
                                  lastOp'.weight, lastOp'.reps>>
    ]_vars

\* two sessions saved different keys in overlapping runs and the persisted
\* log holds only the entry of the second
C10_Witness ==
  /\ lastOp.op = "save_entry"
  /\ lastOp.result = "ok"
  /\ lastOp.overlap
  /\ lastOp.lost
  /\ Len(Log(csv, lastOp.username)) = 1
  /\ Key(Log(csv, lastOp.username)[1]) = <<lastOp.day, lastOp.exercise>>

====
